---- MODULE Spec2Model ----
(***************************************************************************)
(* Model of the Lattice class of src/lib/lattice.cpp: the gauge field, the *)
(* plaquette and local action, the Metropolis trial update_link and the    *)
(* thread-per-link sweep update().                                         *)
(*                                                                         *)
(* Numbers.  The matrices the constructor produces are drawn from the six  *)
(* signed permutation matrices of determinant 1, a finite subgroup of      *)
(* SU(3) with integer entries.  Their entries are real, so the adjoint is  *)
(* the transpose.  A variable holds a matrix as its place in the list SU3; *)
(* products, adjoints and traces are computed on the matrices.  A matrix   *)
(* is read and stored in one step.  P returns the trace itself, that is    *)
(* three times the code's 1/3 * Re Tr, and the action is carried in units  *)
(* of (ln 2)/6: the inverse coupling is beta = Beta * (ln 2)/2, so that    *)
(* Si = -Beta * (sum of traces) and exp(-dS) = 2^(-dS/6); it is compared   *)
(* with a draw on sixth powers, in integers.  A draw rand() is an integer  *)
(* in 0..RandMax.                                                          *)
(*                                                                         *)
(* Threads.  update() creates one thread per link and hands each thread a  *)
(* reference to the loop's local array `link`.  The thread with number t   *)
(* is the one created in the loop iteration of the link with flat index t. *)
(* A thread reads the coordinates through the reference each time a        *)
(* statement of update_link uses them, so it sees what the array holds at  *)
(* that moment.  Each statement of update_link that reads or writes the    *)
(* gauge field is one step; the multiplication in place is two (the        *)
(* product, then the store).                                               *)
(***************************************************************************)
EXTENDS Integers, Sequences, FiniteSets, TLC

\* ------------------------------------------------------------------ bounds
\* Threads that exist at once: update() creates a thread only when every
\* thread it created MaxThreads or more iterations earlier has finished.
MaxThreads == 2
\* The inverse coupling, in units of (ln 2) / 2.
Beta == 1
\* rand() returns 0..RandMax.
RandMax == 2

\* Direct calls of lattice::mod take c in -MaxCoord..MaxCoord, d in
\* 1..MaxExtent and multiples k in -MaxMultiple..MaxMultiple.
MaxCoord == 6
MaxExtent == 3
MaxMultiple == 2
\* Direct calls of update_link are made while fewer than MaxChanged links
\* differ from what the constructor left.
MaxChanged == 1

\* Number of (matrix, adjoint) pairs in the perturbation pool.
NumPairs == 50

\* ------------------------------------------------------------------ matrices
Rows == 1..3

Identity == <<<<1, 0, 0>>, <<0, 1, 0>>, <<0, 0, 1>>>>

\* The two 3-cycles and the three negated transpositions: with Identity, the
\* signed permutation matrices of determinant 1.
Cyc1 == <<<<0, 1, 0>>, <<0, 0, 1>>, <<1, 0, 0>>>>
Cyc2 == <<<<0, 0, 1>>, <<1, 0, 0>>, <<0, 1, 0>>>>
Swp1 == <<<<-1, 0, 0>>, <<0, 0, -1>>, <<0, -1, 0>>>>
Swp2 == <<<<0, 0, -1>>, <<0, -1, 0>>, <<-1, 0, 0>>>>
Swp3 == <<<<0, -1, 0>>, <<-1, 0, 0>>, <<0, 0, -1>>>>

MatMul(A, B) ==
  [row \in Rows |-> [col \in Rows |->
     A[row][1] * B[1][col] + A[row][2] * B[2][col] + A[row][3] * B[3][col]]]

MatAdjoint(A) == [row \in Rows |-> [col \in Rows |-> A[col][row]]]

MatTrace(A) == A[1][1] + A[2][2] + A[3][3]

Determinant(A) ==
    A[1][1] * (A[2][2] * A[3][3] - A[2][3] * A[3][2])
  - A[1][2] * (A[2][1] * A[3][3] - A[2][3] * A[3][1])
  + A[1][3] * (A[2][1] * A[3][2] - A[2][2] * A[3][1])

IsSU3(A) == MatMul(A, MatAdjoint(A)) = Identity /\ Determinant(A) = 1

\* The matrices a Matrix3cd variable of the model can hold, and their places.
SU3 == <<Identity, Cyc1, Cyc2, Swp1, Swp2, Swp3>>

Elems == 1..6

Elem(A) == CHOOSE g \in Elems : SU3[g] = A

\* A Matrix3cd that has not been assigned.
NoMatrix == 0

IdentityElem == Elem(Identity)

\* The product, the adjoint and the trace, tabulated from the matrices.
ProductTable == [a \in Elems |-> [b \in Elems |-> Elem(MatMul(SU3[a], SU3[b]))]]

AdjointTable == [a \in Elems |-> Elem(MatAdjoint(SU3[a]))]

TraceTable == [a \in Elems |-> MatTrace(SU3[a])]

Times(a, b) == ProductTable[a][b]

Adjoint(a) == AdjointTable[a]

Trace(a) == TraceTable[a]

\* ------------------------------------------------------------------ state
VARIABLES
  n,          \* lattice extent
  links,      \* the gauge field, by flat link index
  links0,     \* the gauge field as the constructor left it
  randSU3s,   \* the perturbation pool
  oneSlot,    \* whether the two `link` arrays of update() share one stack slot
  upc,        \* where update() is
  pos,        \* threads created so far
  jn,         \* joins done in the current join loop
  tpc,        \* where each update_link thread is
  frame,      \* update_link's locals, for each thread that is inside it
  printed,    \* what the latest printL() wrote, <<>> if none since update()
  pav,        \* what the latest Pav() returned, NoResult if none since update()
  call        \* the latest direct call of mod, P, Si or update_link

vars == <<n, links, links0, randSU3s, oneSlot, upc, pos, jn, tpc, frame,
          printed, pav, call>>

\* pav before Pav() has returned, call before a call is made.
NoResult == [op |-> "none"]

\* ------------------------------------------------------------------ indexing
Dirs == 0..3

\* |c| % d, the wrap without the loop.
modOfSize(c, d) == (IF c < 0 THEN -c ELSE c) % d

RECURSIVE mod(_, _)
mod(c, d) == IF c < 0 THEN mod(c + d, d) ELSE c % d

\* The number of times the while loop of mod runs its body.
RECURSIVE modIterations(_, _)
modIterations(c, d) == IF c < 0 THEN 1 + modIterations(c + d, d) ELSE 0

n_sites == n * n * n * n

NumLinks == 4 * n_sites

LinkIds == 0..(NumLinks - 1)

\* The flat index update() computes for a site.
SiteIndex(i, j, k, l) == l + n * (k + n * (j + n * i))

\* L[i][j][k][l][m], for a gauge field L; links[i][j][k][l][m]
AtIn(L, i, j, k, l, m) == L[m + 4 * SiteIndex(i, j, k, l)]

At(i, j, k, l, m) == AtIn(links, i, j, k, l, m)

\* The link {i,j,k,l,m} whose loop iteration is number q.
LinkOf(q) ==
  LET s == q \div 4
  IN  [c \in 0..4 |->
         CASE c = 0 -> s \div (n * n * n)
           [] c = 1 -> (s \div (n * n)) % n
           [] c = 2 -> (s \div n) % n
           [] c = 3 -> s % n
           [] c = 4 -> q % 4]

FlatLink(link) ==
  link[4] + 4 * SiteIndex(link[0], link[1], link[2], link[3])

\* ------------------------------------------------------------------ action
UnitVec(mu) == [c \in Dirs |-> IF c = mu THEN 1 ELSE 0]

\* Three times the plaquette: the trace of the product of the four links.
\* site2, os1 and os2 are computed once, then used.  PIn is P on the gauge
\* field L, P is P on this->links.
PIn(L, site, mu, nu) ==
  LET mu_vec == UnitVec(mu)
      nu_vec == UnitVec(nu)
      product(site2, os1, os2) ==
        Times(Times(Times(Times(IdentityElem,
          AtIn(L, site2[0], site2[1], site2[2], site2[3], mu)),
          AtIn(L, os1[0], os1[1], os1[2], os1[3], nu)),
          Adjoint(AtIn(L, os2[0], os2[1], os2[2], os2[3], mu))),
          Adjoint(AtIn(L, site2[0], site2[1], site2[2], site2[3], nu)))
  IN  CHOOSE tr \in
        { Trace(product(site2, os1, os2)) :
            site2 \in {[c \in Dirs |-> mod(site[c], n)]},
            os1 \in {[c \in Dirs |-> mod(site[c] + mu_vec[c], n)]},
            os2 \in {[c \in Dirs |-> mod(site[c] + nu_vec[c], n)]} } : TRUE

P(site, mu, nu) == PIn(links, site, mu, nu)

\* The directions 0, 1, 2 whatever link[4] is.
PlanesFixed(link) == [p \in 0..2 |-> p]

\* The three directions other than link[4], in increasing order.
Planes(link) == [p \in 0..2 |-> IF link[4] \in 0..p THEN p + 1 ELSE p]

\* The two plaquettes of plane (link[4], nu) that Si adds: at the site, then
\* at the site moved back one step in direction nu.
PlanePair(L, site, mu, nu) ==
  PIn(L, site, mu, nu) + PIn(L, [site EXCEPT ![nu] = @ - 1], mu, nu)

\* SiIn is Si on the gauge field L, Si is Si on this->links.
SiIn(L, link) ==
  LET Psum(planes, site) ==
        PlanePair(L, site, link[4], planes[0])
        + PlanePair(L, site, link[4], planes[1])
        + PlanePair(L, site, link[4], planes[2])
  IN  CHOOSE s \in
        { -Beta * Psum(planes, site) :
            planes \in {Planes(link)},
            site \in {[c \in Dirs |-> link[c]]} } : TRUE

Si(link) == SiIn(links, link)

\* The calls this->P(site, link[4], planes[i]) of Si(link), in order.
SiTerms(link) ==
  LET site == [c \in Dirs |-> link[c]]
      planes == Planes(link)
  IN  [t \in 1..6 |->
         [site |-> IF t % 2 = 1 THEN site
                   ELSE [site EXCEPT ![planes[(t - 1) \div 2]] = @ - 1],
          mu |-> link[4],
          nu |-> planes[(t - 1) \div 2]]]

\* ------------------------------------------------------------------ inputs
\* The pool with each draw pushed twice, for the draw and its adjoint.
PoolTwice(seeds) ==
  [p \in 1..(2 * NumPairs) |-> seeds[(((p - 1) \div 2) % Len(seeds)) + 1]]

\* The pool the constructor builds from its 50 draws: each draw, then its
\* adjoint.  The draws repeat the given sequence.
Pool(seeds) ==
  [p \in 1..(2 * NumPairs) |->
     LET X == seeds[(((p - 1) \div 2) % Len(seeds)) + 1]
     IN  IF (p - 1) % 2 = 0 THEN X ELSE Adjoint(X)]

\* What the constructor can leave behind: the extent, the links and the pool.
\* With eps = 0 every generated matrix is the identity.
Inputs ==
  { [n |-> 1,
     links |-> <<Elem(Swp1), Elem(Swp2), Elem(Identity), Elem(Identity)>>,
     seeds |-> <<Elem(Swp1)>>, oneSlot |-> FALSE] }
  \cup
  { [n |-> 2, links |-> [q \in 1..64 |-> Elem(Identity)],
     seeds |-> <<Elem(Identity)>>, oneSlot |-> b] : b \in BOOLEAN }

ThreadIds == LinkIds

Init ==
  \E in \in Inputs :
    /\ n = in.n
    /\ links = [q \in 0..(4 * in.n * in.n * in.n * in.n - 1) |-> in.links[q + 1]]
    /\ links0 = links
    /\ randSU3s = Pool(in.seeds)
    /\ oneSlot = in.oneSlot
    /\ upc = "idle"
    /\ pos = 0
    /\ jn = 0
    /\ tpc = [t \in 0..(4 * in.n * in.n * in.n * in.n - 1) |-> "none"]
    /\ frame = <<>>
    /\ printed = <<>>
    /\ pav = NoResult
    /\ call = NoResult

\* ------------------------------------------------------------------ update()
\* The parity class update() puts the thread of loop iteration q in:
\* index % 2 of its site.
ParityClass(q) == (q \div 4) % 2

\* even_threads[m] and odd_threads[m] after `pos` iterations: the threads of
\* direction m created so far, in creation order.
ThreadsOf(class, m) ==
  LET made == {q \in 0..(pos - 1) : q % 4 = m /\ ParityClass(q) = class}
      Nth(k) == CHOOSE q \in made : Cardinality({y \in made : y < q}) = k
  IN  [k \in 0..(Cardinality(made) - 1) |-> Nth(k)]

even_threads(m) == ThreadsOf(0, m)

odd_threads(m) == ThreadsOf(1, m)

\* The storage of the array `link` that the iteration of thread q uses: one
\* place for each branch, or the same place for both.
Slot(q) == IF oneSlot THEN 0 ELSE ParityClass(q)

\* The coordinates a thread reads through its reference to `link`: what the
\* array of its branch holds now, which is what the latest iteration of that
\* branch (of either branch, when the arrays share a slot) stored in it.
\* The branches alternate from one site to the next, so the latest iteration
\* of the other branch is the last one of the site before.
LinkSeen(t) ==
  LET latest == pos - 1
  IN  IF oneSlot \/ ParityClass(latest) = ParityClass(t)
      THEN LinkOf(latest)
      ELSE LinkOf(4 * (latest \div 4) - 1)

Call ==
  /\ upc = "idle"
  /\ upc' = "launch"
  /\ pos' = 0
  /\ printed' = <<>>
  /\ pav' = NoResult
  /\ UNCHANGED <<n, links, links0, randSU3s, oneSlot, jn, tpc, frame, call>>

\* The threads created MaxThreads or more iterations ago have finished.
RoomForThread == \A q \in 0..(pos - MaxThreads) : tpc[q] = "done"

\* One iteration of the innermost loop: store {i,j,k,l,m} in `link`, create
\* the thread and push it on the list of its class.
Launch ==
  /\ upc = "launch"
  /\ pos < NumLinks
  /\ RoomForThread
  /\ tpc' = [tpc EXCEPT ![pos] = "L172"]
  /\ pos' = pos + 1
  /\ UNCHANGED <<n, links, links0, randSU3s, oneSlot, upc, jn, frame, printed, pav, call>>

LaunchEnd ==
  /\ upc = "launch"
  /\ pos = NumLinks
  /\ upc' = "joinOdd"
  /\ jn' = 0
  /\ UNCHANGED <<n, links, links0, randSU3s, oneSlot, pos, tpc, frame, printed, pav, call>>

\* Iteration jn of a join loop: j = jn \div (n_sites/2), i = jn % (n_sites/2).
JoinOdd ==
  /\ upc = "joinOdd"
  /\ jn < 4 * (n_sites \div 2)
  /\ tpc[odd_threads(jn \div (n_sites \div 2))[jn % (n_sites \div 2)]] = "done"
  /\ jn' = jn + 1
  /\ UNCHANGED <<n, links, links0, randSU3s, oneSlot, upc, pos, tpc, frame, printed, pav, call>>

JoinOddEnd ==
  /\ upc = "joinOdd"
  /\ jn = 4 * (n_sites \div 2)
  /\ upc' = "joinEven"
  /\ jn' = 0
  /\ UNCHANGED <<n, links, links0, randSU3s, oneSlot, pos, tpc, frame, printed, pav, call>>

JoinEven ==
  /\ upc = "joinEven"
  /\ jn < 4 * (n_sites \div 2)
  /\ tpc[even_threads(jn \div (n_sites \div 2))[jn % (n_sites \div 2)]] = "done"
  /\ jn' = jn + 1
  /\ UNCHANGED <<n, links, links0, randSU3s, oneSlot, upc, pos, tpc, frame, printed, pav, call>>

\* The end of update(): the thread lists go out of scope, and a thread that
\* was not joined is detached and runs on.
Return ==
  /\ upc = "joinEven"
  /\ jn = 4 * (n_sites \div 2)
  /\ upc' = "returned"
  /\ UNCHANGED <<n, links, links0, randSU3s, oneSlot, pos, jn, tpc, frame, printed, pav, call>>

\* ------------------------------------------------------------------ update_link
RECURSIVE Pow(_, _)
Pow(b, e) == IF e = 0 THEN 1 ELSE b * Pow(b, e - 1)

\* exp(-d) < double(r) / double(RAND_MAX), for d > 0 in units of (ln 2)/6:
\* 2^(-d/6) < r / RandMax, that is RandMax^6 < r^6 * 2^d.  Once 2^(d \div 6)
\* exceeds RandMax every r >= 1 is above the threshold.
ExpLess(d, r) ==
  /\ r > 0
  /\ \/ Pow(2, d \div 6) > RandMax
     \/ Pow(RandMax, 6) < Pow(r, 6) * Pow(2, d)

\* The locals of a thread entering update_link: lk is the element of links
\* that the pending store of line 175 goes to, draw the value of rand() at
\* line 178.  A local that is not read again is put back to its initial value.
NewFrame ==
  [lk |-> -1, Si_old |-> 0, linki_old |-> NoMatrix, product |-> NoMatrix,
   dS |-> 0, draw |-> -1]

\* The frames with the frame of thread t replaced.
Put(t, f) == [q \in (DOMAIN frame) \cup {t} |-> IF q = t THEN f ELSE frame[q]]

\* The frames without the frame of thread t.
Drop(t) == [q \in (DOMAIN frame) \ {t} |-> frame[q]]

\* double Si_old = this->Si(link);
L172(t) ==
  /\ tpc[t] = "L172"
  /\ \E link \in {LinkSeen(t)} :
       frame' = Put(t, [NewFrame EXCEPT !.Si_old = Si(link)])
  /\ tpc' = [tpc EXCEPT ![t] = "L173"]
  /\ UNCHANGED <<n, links, links0, randSU3s, oneSlot, upc, pos, jn, printed, pav, call>>

\* Matrix3cd linki_old = this->links[...];
L173(t) ==
  /\ tpc[t] = "L173"
  /\ frame' = Put(t, [frame[t] EXCEPT
                        !.linki_old = links[FlatLink(LinkSeen(t))]])
  /\ tpc' = [tpc EXCEPT ![t] = "L174"]
  /\ UNCHANGED <<n, links, links0, randSU3s, oneSlot, upc, pos, jn, printed, pav, call>>

\* randSU3 = this->randSU3s[rand() % size]; then the product of
\* this->links[...] *= randSU3, evaluated into a temporary.
L174(t) ==
  /\ tpc[t] = "L174"
  /\ \E randSU3 \in {randSU3s[(rnd % Len(randSU3s)) + 1] : rnd \in 0..RandMax} :
       frame' = Put(t, [frame[t] EXCEPT
                          !.lk = FlatLink(LinkSeen(t)),
                          !.product = Times(links[FlatLink(LinkSeen(t))], randSU3)])
  /\ tpc' = [tpc EXCEPT ![t] = "L175"]
  /\ UNCHANGED <<n, links, links0, randSU3s, oneSlot, upc, pos, jn, printed, pav, call>>

\* The store of this->links[...] *= randSU3.
L175(t) ==
  /\ tpc[t] = "L175"
  /\ links' = [links EXCEPT ![frame[t].lk] = frame[t].product]
  /\ frame' = Put(t, [frame[t] EXCEPT !.lk = -1, !.product = NoMatrix])
  /\ tpc' = [tpc EXCEPT ![t] = "L176"]
  /\ UNCHANGED <<n, links0, randSU3s, oneSlot, upc, pos, jn, printed, pav, call>>

\* exp(-d) <= double(r) / double(RAND_MAX), as ExpLess.
ExpLessOrEqual(d, r) ==
  /\ r > 0
  /\ \/ Pow(2, d \div 6) > RandMax
     \/ Pow(RandMax, 6) <= Pow(r, 6) * Pow(2, d)

\* Line 178 with the sign of dS mistaken: (dS < 0) && (exp(dS) < ...).
Line178SignSlip(d) ==
  IF d < 0
  THEN {<<r, ExpLess(-d, r)>> : r \in 0..RandMax}
  ELSE {<<-1, FALSE>>}

\* Line 178 with <= for <: (dS > 0) && (exp(-dS) <= ...).
Line178OrEqual(d) ==
  IF d > 0
  THEN {<<r, ExpLessOrEqual(d, r)>> : r \in 0..RandMax}
  ELSE {<<-1, FALSE>>}

\* The if of line 178, for the action change d: the pairs of what rand()
\* returned and whether the body is entered.  (dS > 0) && ... calls rand()
\* only when dS > 0; -1 stands for no call.
Line178(d) ==
  IF d > 0
  THEN {<<r, ExpLess(d, r)>> : r \in 0..RandMax}
  ELSE {<<-1, FALSE>>}

\* double dS = this->Si(link) - Si_old; and the if of line 178, which reads
\* nothing but dS.
L176(t) ==
  /\ tpc[t] = "L176"
  /\ \E link \in {LinkSeen(t)} :
       \E d \in {Si(link) - frame[t].Si_old} :
         \E out \in Line178(d) :
           /\ frame' = Put(t, [frame[t] EXCEPT
                                 !.dS = d,
                                 !.Si_old = 0,
                                 !.draw = out[1],
                                 !.linki_old = IF out[2] THEN @ ELSE NoMatrix])
           /\ tpc' = [tpc EXCEPT ![t] = IF out[2] THEN "L179" ELSE "L181"]
  /\ UNCHANGED <<n, links, links0, randSU3s, oneSlot, upc, pos, jn, printed, pav, call>>

\* this->links[...] = linki_old; then update_link returns and its thread
\* ends.
L179(t) ==
  /\ tpc[t] = "L179"
  /\ links' = [links EXCEPT ![FlatLink(LinkSeen(t))] = frame[t].linki_old]
  /\ tpc' = [tpc EXCEPT ![t] = "done"]
  /\ frame' = Drop(t)
  /\ UNCHANGED <<n, links0, randSU3s, oneSlot, upc, pos, jn, printed, pav, call>>

\* update_link returns past the if, and its thread ends.
L181(t) ==
  /\ tpc[t] = "L181"
  /\ tpc' = [tpc EXCEPT ![t] = "done"]
  /\ frame' = Drop(t)
  /\ UNCHANGED <<n, links, links0, randSU3s, oneSlot, upc, pos, jn, printed, pav, call>>

\* ------------------------------------------------------------------ Pav(), printL()
\* The iterations of the loop nest over i, j, k, l and m < inner, in the
\* order the loops run them: Loop is the for loop at the given depth from
\* counter value x on, Body what one iteration of it runs.
RECURSIVE Loop(_, _, _, _)
RECURSIVE Body(_, _, _)
Loop(idx, depth, x, inner) ==
  IF x >= (IF depth = 4 THEN inner ELSE n)
  THEN <<>>
  ELSE Body(idx \o <<x>>, depth, inner) \o Loop(idx, depth, x + 1, inner)

Body(idx, depth, inner) ==
  IF depth = 4 THEN <<idx>> ELSE Loop(idx, depth + 1, 0, inner)

LoopNest(inner) == Loop(<<>>, 0, 0, inner)

\* int nus[6], int mus[6]
nus == <<0, 0, 0, 1, 1, 2>>

\* mus with its last entry 2 for 3.
musSlip == <<1, 2, 3, 2, 3, 2>>

mus == <<1, 2, 3, 2, 3, 3>>

\* The calls this->P(site, mus[m], nus[m]) of Pav(), in order.
PavTerms ==
  LET nest == LoopNest(6)
  IN  [p \in DOMAIN nest |->
         [site |-> [c \in Dirs |-> nest[p][c + 1]],
          mu |-> mus[nest[p][5] + 1],
          nu |-> nus[nest[p][5] + 1]]]

\* What the calls number lo to hi add to Ptot.  The traces are integers, so
\* the sum is taken by halves.
RECURSIVE PtotOver(_, _, _, _)
PtotOver(L, terms, lo, hi) ==
  IF lo > hi THEN 0
  ELSE IF lo = hi THEN PIn(L, terms[lo].site, terms[lo].mu, terms[lo].nu)
  ELSE PtotOver(L, terms, lo, (lo + hi) \div 2)
       + PtotOver(L, terms, ((lo + hi) \div 2) + 1, hi)

\* Pav() returns Ptot / (pow(n,4) * 6); the model keeps both numbers, Ptot
\* in traces (three times the code's).
Pav ==
  /\ upc \in {"idle", "returned"}
  /\ call = NoResult
  /\ \E terms \in {PavTerms} :
       pav' = [op |-> "Pav", Ptot |-> PtotOver(links, terms, 1, Len(terms)),
               over |-> Pow(n, 4) * 6]
  /\ UNCHANGED <<n, links, links0, randSU3s, oneSlot, upc, pos, jn, tpc, frame,
                 printed, call>>

\* The links in the order of a nest with the loop over m outermost.
printLByDirection ==
  [p \in 1..(4 * n_sites) |->
     <<((p - 1) % n_sites) \div (n * n * n), (((p - 1) % n_sites) \div (n * n)) % n,
       (((p - 1) % n_sites) \div n) % n, ((p - 1) % n_sites) % n,
       (p - 1) \div n_sites>>]

\* The links printL() writes, in order.
printLOrder == LoopNest(4)

\* cout << this->links[i][j][k][l][m] << endl, for the whole nest.
printL ==
  /\ upc \in {"idle", "returned"}
  /\ call = NoResult
  /\ \E order \in {printLOrder} :
       printed' = [p \in DOMAIN order |->
                     At(order[p][1], order[p][2], order[p][3], order[p][4],
                        order[p][5])]
  /\ UNCHANGED <<n, links, links0, randSU3s, oneSlot, upc, pos, jn, tpc, frame,
                 pav, call>>

update_link(t) ==
  \/ L172(t)
  \/ L173(t)
  \/ L174(t)
  \/ L175(t)
  \/ L176(t)
  \/ L179(t)
  \/ L181(t)

update ==
  \/ Call
  \/ Launch
  \/ LaunchEnd
  \/ JoinOdd
  \/ JoinOddEnd
  \/ JoinEven
  \/ Return

Next ==
  \/ Call
  \/ Launch
  \/ LaunchEnd
  \/ JoinOdd
  \/ JoinOddEnd
  \/ JoinEven
  \/ Return
  \/ \E t \in ThreadIds : L172(t)
  \/ \E t \in ThreadIds : L173(t)
  \/ \E t \in ThreadIds : L174(t)
  \/ \E t \in ThreadIds : L175(t)
  \/ \E t \in ThreadIds : L176(t)
  \/ \E t \in ThreadIds : L179(t)
  \/ \E t \in ThreadIds : L181(t)

Spec == Init /\ [][Next]_vars

\* update() together with calls of Pav() and printL() before and after it.
NextReaders ==
  \/ Call
  \/ Launch
  \/ LaunchEnd
  \/ JoinOdd
  \/ JoinOddEnd
  \/ JoinEven
  \/ Return
  \/ \E t \in ThreadIds : L172(t)
  \/ \E t \in ThreadIds : L173(t)
  \/ \E t \in ThreadIds : L174(t)
  \/ \E t \in ThreadIds : L175(t)
  \/ \E t \in ThreadIds : L176(t)
  \/ \E t \in ThreadIds : L179(t)
  \/ \E t \in ThreadIds : L181(t)
  \/ Pav
  \/ printL

SpecReaders == Init /\ [][NextReaders]_vars

\* ------------------------------------------------------------------ direct calls
\* What the constructor can leave behind, for the calls made one at a time
\* from outside update(): a field of extent 1 with a pool of two draws, and
\* two fields of mixed matrices with extents 2 and 3 and a pool of identities.
MixedLinks(m) ==
  [q \in 1..(4 * m * m * m * m) |-> 1 + ((q * q + (q \div 4)) % 6)]

CallInputs ==
  { [n |-> 1,
     links |-> <<Elem(Identity), Elem(Swp2), Elem(Identity), Elem(Identity)>>,
     seeds |-> <<Elem(Cyc1), Elem(Swp2)>>, oneSlot |-> FALSE] }
  \cup
  { [n |-> m, links |-> MixedLinks(m), seeds |-> <<Elem(Identity)>>,
     oneSlot |-> FALSE] : m \in {2, 3} }

InitCalls ==
  \E in \in CallInputs :
    /\ n = in.n
    /\ links = [q \in 0..(4 * in.n * in.n * in.n * in.n - 1) |-> in.links[q + 1]]
    /\ links0 = links
    /\ randSU3s = Pool(in.seeds)
    /\ oneSlot = in.oneSlot
    /\ upc = "idle"
    /\ pos = 0
    /\ jn = 0
    /\ tpc = [t \in 0..(4 * in.n * in.n * in.n * in.n - 1) |-> "none"]
    /\ frame = <<>>
    /\ printed = <<>>
    /\ pav = NoResult
    /\ call = NoResult

\* The caller holds no result: a direct call is made then.
NothingHeld == call = NoResult /\ printed = <<>> /\ pav = NoResult

\* The caller drops the result of its latest call.
Forget ==
  /\ call # NoResult
  /\ call' = NoResult
  /\ UNCHANGED <<n, links, links0, randSU3s, oneSlot, upc, pos, jn, tpc, frame,
                 printed, pav>>

\* lattice::mod(c, d), then mod of its result and mod of c + k * d.
CallMod ==
  /\ NothingHeld
  /\ \E c \in (-MaxCoord)..MaxCoord, d \in 1..MaxExtent,
        k \in (-MaxMultiple)..MaxMultiple :
       call' = [op |-> "mod", c |-> c, d |-> d, k |-> k,
                ret |-> mod(c, d), iterations |-> modIterations(c, d),
                again |-> mod(mod(c, d), d), shifted |-> mod(c + k * d, d)]
  /\ UNCHANGED <<n, links, links0, randSU3s, oneSlot, upc, pos, jn, tpc, frame,
                 printed, pav>>

\* The arguments of the direct calls: the sites with every coordinate 0 or
\* n - 1 and the sites with one coordinate at -1 or n; the directions -1 to 4.
ArgSites ==
  [Dirs -> {0, n - 1}]
  \cup { [c \in Dirs |-> IF c = e THEN v ELSE 0] : e \in Dirs, v \in {-1, n} }

ArgDirs == -1..4

\* Whether links[ix[1]][ix[2]][ix[3]][ix[4]][ix[5]] is an element of links.
InLinks(ix) ==
  /\ \A c \in 1..4 : ix[c] \in 0..(n - 1)
  /\ ix[5] \in Dirs

\* The indexes P(site, mu, nu) applies to links, lines 121 to 124.
PIndexes(site, mu, nu) ==
  LET site2 == [c \in Dirs |-> mod(site[c], n)]
      os1 == [c \in Dirs |-> mod(site[c] + UnitVec(mu)[c], n)]
      os2 == [c \in Dirs |-> mod(site[c] + UnitVec(nu)[c], n)]
      ix(x, m) == <<x[0], x[1], x[2], x[3], m>>
  IN  {ix(site2, mu), ix(os1, nu), ix(os2, mu), ix(site2, nu)}

\* The indexes Si(link) applies to links, through P.
SiIndexes(link) ==
  LET site == [c \in Dirs |-> link[c]]
      planes == Planes(link)
  IN  UNION { PIndexes(site, link[4], planes[p])
                \cup PIndexes([site EXCEPT ![planes[p]] = @ - 1], link[4], planes[p]) :
              p \in 0..2 }

\* The indexes update_link(link) applies to links: those of Si, and the
\* coordinates of link as they are at lines 173, 175 and 179.
UpdateLinkIndexes(link) ==
  SiIndexes(link) \cup {<<link[0], link[1], link[2], link[3], link[4]>>}

\* How a call that applies the indexes ixs ends.  An index outside the
\* array, like a direction outside mu_vec or planes, is undefined behaviour:
\* the call returns some value or the process is stopped.
Outcomes(ixs) ==
  IF \A ix \in ixs : InLinks(ix) THEN {"returned"} ELSE {"returned", "crashed"}

\* update_link(link) run alone on the gauge field L, with randSU3 the pool
\* matrix of line 174 and draw the value of rand() at line 178 if it is
\* called: the field it leaves, dS, and whether the proposed value is kept.
Trial(L, link, randSU3, draw) ==
  LET q == FlatLink(link)
      linki_old == L[q]
      Result(proposed, dS) ==
        [links |-> IF (dS > 0) /\ ExpLess(dS, draw)
                   THEN [proposed EXCEPT ![q] = linki_old]
                   ELSE proposed,
         dS |-> dS,
         kept |-> ~((dS > 0) /\ ExpLess(dS, draw))]
      Decide(proposed, Si_old) ==
        CHOOSE res \in
          { Result(proposed, dS) : dS \in {SiIn(proposed, link) - Si_old} } : TRUE
  IN  CHOOSE res \in
        { Decide(proposed, Si_old) :
            proposed \in {[L EXCEPT ![q] = Times(L[q], randSU3)]},
            Si_old \in {SiIn(L, link)} } : TRUE

\* RAND_MAX of the C libraries the code is built with: rand() returns
\* 0..RAND_MAX.
RAND_MAX_values == {32767, 2147483647}

\* How many values of rand() in 0..rand_max give the pool index p at line
\* 174, rand() % size with size 100.
DrawCount(p, rand_max) == ((rand_max - p) \div (2 * NumPairs)) + 1

\* this->P(site, mu, nu), called from outside.
CallP ==
  /\ NothingHeld
  /\ \E site \in ArgSites, mu \in ArgDirs, nu \in ArgDirs :
       \E end \in Outcomes(PIndexes(site, mu, nu)) :
         call' = [op |-> "P", link |-> <<site[0], site[1], site[2], site[3], mu, nu>>,
                  used |-> PIndexes(site, mu, nu), outcome |-> end]
  /\ UNCHANGED <<n, links, links0, randSU3s, oneSlot, upc, pos, jn, tpc, frame,
                 printed, pav>>

\* this->Si(link), called from outside.
CallSi ==
  /\ NothingHeld
  /\ \E site \in ArgSites, mu \in ArgDirs :
       \E link \in {[c \in 0..4 |-> IF c = 4 THEN mu ELSE site[c]]} :
         \E end \in Outcomes(SiIndexes(link)) :
           call' = [op |-> "Si", link |-> <<site[0], site[1], site[2], site[3], mu>>,
                    used |-> SiIndexes(link), outcome |-> end]
  /\ UNCHANGED <<n, links, links0, randSU3s, oneSlot, upc, pos, jn, tpc, frame,
                 printed, pav>>

\* this->update_link(link), called from outside with nothing else running.
\* A call that stays inside the array changes the field as Trial says; of a
\* call that leaves it the model records the indexes and leaves the field.
CallUpdateLink ==
  /\ NothingHeld
  /\ Cardinality({q \in LinkIds : links[q] # links0[q]}) < MaxChanged
  /\ \E site \in ArgSites, mu \in ArgDirs :
       \E link \in {[c \in 0..4 |-> IF c = 4 THEN mu ELSE site[c]]} :
         \E end \in Outcomes(UpdateLinkIndexes(link)) :
           /\ call' = [op |-> "update_link",
                       link |-> <<site[0], site[1], site[2], site[3], mu>>,
                       used |-> UpdateLinkIndexes(link), outcome |-> end]
           /\ IF \A ix \in UpdateLinkIndexes(link) : InLinks(ix)
              THEN \E rnd \in 0..RandMax, draw \in 0..RandMax :
                     links' = Trial(links, link, randSU3s[(rnd % Len(randSU3s)) + 1],
                                    draw).links
              ELSE links' = links
  /\ UNCHANGED <<n, links0, randSU3s, oneSlot, upc, pos, jn, tpc, frame,
                 printed, pav>>

\* update_link(a) then update_link(b) run alone on the gauge field L, each
\* with its pool matrix and its value of rand() at line 178: the field they
\* leave and whether each kept its proposed value.
TrialPair(L, a, b, Xa, Xb, ra, rb) ==
  LET Both(first, second) ==
        [links |-> second.links,
         kept |-> [x \in {"a", "b"} |->
                     IF x = "a" THEN first.kept ELSE second.kept]]
      Then(first) ==
        CHOOSE res \in
          { Both(first, second) :
              second \in {Trial(first.links, b, Xb, rb)} } : TRUE
  IN  CHOOSE res \in { Then(first) : first \in {Trial(L, a, Xa, ra)} } : TRUE

\* The pool matrices line 174 can pick.
Drawn == {randSU3s[(rnd % Len(randSU3s)) + 1] : rnd \in 0..RandMax}

\* A link of site 0 and a link of site 0 or of a site one step from it, both
\* of one parity class of update(), and their draws: what update_link(a) then
\* update_link(b) leaves from the present field, and what update_link(b)
\* then update_link(a) leaves.  The field itself is left as it is.
CallPair ==
  /\ NothingHeld
  /\ \E sb \in {s \in [Dirs -> {0, n - 1}] :
                  Cardinality({c \in Dirs : s[c] # 0}) <= 1},
        ma \in Dirs, mb \in Dirs, Xa \in Drawn, Xb \in Drawn,
        ra \in {0, RandMax}, rb \in {0, RandMax} :
       \E a \in {[c \in 0..4 |-> IF c = 4 THEN ma ELSE 0]},
          b \in {[c \in 0..4 |-> IF c = 4 THEN mb ELSE sb[c]]} :
         /\ FlatLink(a) < FlatLink(b)
         /\ ParityClass(FlatLink(a)) = ParityClass(FlatLink(b))
         /\ \E ab \in {TrialPair(links, a, b, Xa, Xb, ra, rb)},
               ba \in {TrialPair(links, b, a, Xb, Xa, rb, ra)} :
              call' = [op |-> "pair", a |-> FlatLink(a), b |-> FlatLink(b),
                       ab |-> [kept |-> ab.kept,
                               changed |-> {q \in LinkIds : ab.links[q] # links[q]}],
                       ba |-> [kept |-> [x \in {"a", "b"} |->
                                           ba.kept[IF x = "a" THEN "b" ELSE "a"]],
                               changed |-> {q \in LinkIds : ba.links[q] # links[q]}],
                       same |-> ab.links = ba.links]
  /\ UNCHANGED <<n, links, links0, randSU3s, oneSlot, upc, pos, jn, tpc, frame,
                 printed, pav>>

NextCalls ==
  \/ Forget
  \/ CallMod
  \/ CallP
  \/ CallSi
  \/ CallUpdateLink
  \/ CallPair
  \/ Pav
  \/ printL

SpecCalls == InitCalls /\ [][NextCalls]_vars

\* ------------------------------------------------------------------ claims
\* The threads inside update_link.
Running == DOMAIN frame

\* C1: at no instant are an update_link of the even class and one of the odd
\* class both in progress.
C1_PhaseBarrier ==
  \A t1 \in Running : \A t2 \in Running : ParityClass(t1) = ParityClass(t2)

\* C2: no two running threads target the same link: two stores of line 175
\* are never pending on one element of links.
C2_OneThreadPerLink ==
  \A t1 \in Running : \A t2 \in Running :
    (t1 # t2 /\ tpc[t1] = "L175" /\ tpc[t2] = "L175")
      => frame[t1].lk # frame[t2].lk

\* The parity class of a site, as update() computes it.
SiteClass(site) == SiteIndex(site[0], site[1], site[2], site[3]) % 2

\* The periodic neighbour of a site, `step` along direction d.
Neighbour(site, d, step) ==
  [c \in Dirs |-> mod(site[c] + (IF c = d THEN step ELSE 0), n)]

\* C3: the neighbours of every site, one step forward and one step back in
\* every direction, are in the other parity class.
C3_NeighboursOpposite ==
  \A site \in [Dirs -> 0..(n - 1)] : \A d \in Dirs :
    /\ SiteClass(Neighbour(site, d, 1)) # SiteClass(site)
    /\ SiteClass(Neighbour(site, d, -1)) # SiteClass(site)

\* The elements of links that P(site, mu, nu) reads.
PReads(site, mu, nu) ==
  LET at(s, m) == m + 4 * SiteIndex(s[0], s[1], s[2], s[3])
  IN  {at(Neighbour(site, mu, 0), mu), at(Neighbour(site, mu, 1), nu),
       at(Neighbour(site, nu, 1), mu), at(Neighbour(site, mu, 0), nu)}

\* The elements of links that Si(link) reads.
SiReads(link) ==
  LET site == [c \in Dirs |-> link[c]]
  IN  UNION { PReads(site, link[4], nu)
                \cup PReads([site EXCEPT ![nu] = @ - 1], link[4], nu) :
              nu \in Dirs \ {link[4]} }

\* The elements of links that the next statement of a running thread reads,
\* and those it writes.
ReadsNext(t) ==
  CASE tpc[t] \in {"L173", "L174"} -> {FlatLink(LinkSeen(t))}
    [] tpc[t] = "L176" -> SiReads(LinkSeen(t))
    [] OTHER -> {}

WritesNext(t) ==
  CASE tpc[t] = "L175" -> {frame[t].lk}
    [] tpc[t] = "L179" -> {FlatLink(LinkSeen(t))}
    [] OTHER -> {}

\* C4: no thread is about to write a link that another running thread is
\* about to read or write.
C4_NoConflict ==
  \A t1 \in Running : \A t2 \in Running \ {t1} :
    WritesNext(t1) \cap (ReadsNext(t2) \cup WritesNext(t2)) = {}

\* C5: the thread created in the iteration of link (i,j,k,l,m) operates on
\* that link: its store of line 175 goes to its own link.
C5_OwnLink ==
  \A t \in Running : tpc[t] = "L175" => frame[t].lk = t

\* C6: when update() has returned, every thread it started has finished.
C6_AllJoined ==
  upc = "returned" => \A t \in ThreadIds : tpc[t] = "done"

\* C7: with dS <= 0 the body of the if is not entered, so the proposed value
\* is not replaced by the saved one.
C7_NonPositiveKept ==
  \A t \in Running : tpc[t] = "L179" => frame[t].dS > 0

C7_Witness ==
  \E t \in Running : tpc[t] = "L181" /\ frame[t].dS < 0

\* r / RandMax < exp(-d) and r / RandMax <= exp(-d), for d > 0 in units of
\* (ln 2)/6: on sixth powers, r^6 * 2^d against RandMax^6.
DrawBelow(r, d) ==
  \/ r = 0
  \/ /\ Pow(2, d \div 6) <= RandMax
     /\ Pow(r, 6) * Pow(2, d) < Pow(RandMax, 6)

DrawAtMost(r, d) ==
  \/ r = 0
  \/ /\ Pow(2, d \div 6) <= RandMax
     /\ Pow(r, 6) * Pow(2, d) <= Pow(RandMax, 6)

\* The threads past the if of line 178 with dS > 0.
Decided == {t \in Running : tpc[t] \in {"L179", "L181"} /\ frame[t].dS > 0}

\* C8 as stated: with dS > 0 the proposed value is kept exactly when the draw
\* is below exp(-dS), and restored when it is equal or above.
C8_KeptIffBelow ==
  \A t \in Decided : tpc[t] = "L181" <=> DrawBelow(frame[t].draw, frame[t].dS)

\* C8 as amended: with dS > 0 the proposed value is kept exactly when the draw
\* is at most exp(-dS), and restored when it is above.
C8_KeptIffAtMost ==
  \A t \in Decided : tpc[t] = "L181" <=> DrawAtMost(frame[t].draw, frame[t].dS)

\* A trial with dS > 0 kept on a draw equal to exp(-dS).
C8_Witness ==
  \E t \in Decided :
    /\ tpc[t] = "L181"
    /\ frame[t].draw > 0
    /\ ~DrawBelow(frame[t].draw, frame[t].dS)

\* C9: a store of the thread of link L changes no link other than L, and its
\* restore leaves L with the matrix it saved.
C9_OnlyOwnLink ==
  [][\A t \in ThreadIds :
       (tpc[t] \in {"L175", "L179"} /\ tpc'[t] # tpc[t])
         => /\ \A q \in LinkIds \ {t} : links'[q] = links[q]
            /\ tpc[t] = "L179" => links'[t] = frame[t].linki_old]_vars

\* The matrices a * X1 * ... * Xk, the X in the pool.
RECURSIVE Orbit(_)
Orbit(S) ==
  LET more == S \cup {Times(a, randSU3s[p]) : a \in S, p \in DOMAIN randSU3s}
  IN  IF more = S THEN S ELSE Orbit(more)

\* C10: every link holds its construction-time matrix right-multiplied by a
\* product of pool matrices, a special-unitary matrix.
C10_LinksInOrbit ==
  \A q \in LinkIds :
    /\ links[q] \in Orbit({links0[q]})
    /\ IsSU3(SU3[links[q]])

\* C11: mod(c, d) returns after finitely many iterations with a value in
\* [0, d), mod of that value is the value, and mod(c + k * d, d) is the same
\* value.
C11_ModContract ==
  call.op = "mod" =>
    /\ call.ret \in 0..(call.d - 1)
    /\ call.iterations = (IF call.c < 0 THEN (call.d - 1 - call.c) \div call.d ELSE 0)
    /\ call.again = call.ret
    /\ call.shifted = call.ret

C11_Witness ==
  /\ call.op = "mod"
  /\ call.c < -call.d
  /\ call.k # 0
  /\ call.ret # 0

\* C12: every index a call of P, Si or update_link applies to the link array
\* has its four coordinates in [0, n).
C12_CoordinatesWrapped ==
  call.op \in {"P", "Si", "update_link"} =>
    \A ix \in call.used : \A c \in 1..4 : ix[c] \in 0..(n - 1)

\* C13: a call of P, Si or update_link with a direction outside {0,1,2,3}
\* ends in InvalidDirection without applying an index to the link array.
C13_InvalidDirection ==
  (/\ call.op \in {"P", "Si", "update_link"}
   /\ \E c \in 5..Len(call.link) : call.link[c] \notin Dirs)
    => (call.outcome = "InvalidDirection" /\ call.used = {})

\* A step in which Pav() returns a new value or printL() writes a new dump.
ReadStep ==
  \/ pav' # pav /\ pav' # NoResult
  \/ printed' # printed /\ printed' # <<>>

\* C14: a call of Pav() or printL() changes no link, pool entry or
\* parameter, and a printL() that follows a printL() with no update() in
\* between writes the same matrices.
C14_ReadOnly ==
  [][ReadStep =>
       /\ links' = links
       /\ randSU3s' = randSU3s
       /\ n' = n
       /\ printed # <<>> => printed' = printed]_vars

\* C15: printL() writes n^4 * 4 matrices, and the matrix at position
\* m + 4*(l + n*(k + n*(j + n*i))), counted from 0, is that of the link
\* (i,j,k,l,m): each link once, first coordinate outermost, direction
\* innermost.
C15_PrintOrder ==
  printed # <<>> =>
    \A order \in {printLOrder} :
    /\ Len(printed) = n * n * n * n * 4
    /\ Len(order) = n * n * n * n * 4
    /\ \A i \in 0..(n - 1), j \in 0..(n - 1), k \in 0..(n - 1), l \in 0..(n - 1) :
         \A m \in Dirs :
           /\ order[m + 4 * (l + n * (k + n * (j + n * i))) + 1]
                = <<i, j, k, l, m>>
           /\ printed[m + 4 * (l + n * (k + n * (j + n * i))) + 1]
                = At(i, j, k, l, m)

C15_Witness ==
  /\ printed # <<>>
  /\ n = 3
  /\ \E p \in DOMAIN printed : printed[p] # printed[1]

\* C16: Pav() calls P once for every site and every unordered pair of
\* distinct directions, n^4 * 6 calls and none with mu = nu, and divides the
\* sum by n^4 * 6.
C16_PavTerms ==
  pav # NoResult =>
    \A terms \in {PavTerms} :
      /\ Len(terms) = n * n * n * n * 6
      /\ pav.over = n * n * n * n * 6
      /\ \A p \in DOMAIN terms : terms[p].mu # terms[p].nu
      /\ \A site \in [Dirs -> 0..(n - 1)] :
           \A a \in Dirs, b \in Dirs :
             a < b =>
               Cardinality({p \in DOMAIN terms :
                              /\ terms[p].site = site
                              /\ {terms[p].mu, terms[p].nu} = {a, b}}) = 1

C16_Witness ==
  /\ pav # NoResult
  /\ n = 3
  /\ pav.over = 486

\* A plaquette as the site it is anchored at, wrapped, and its plane.
Plaquette(term) ==
  <<[c \in Dirs |-> mod(term.site[c], n)], {term.mu, term.nu}>>

\* The total action of the gauge field L: -beta times the sum Pav() takes
\* over its calls `all`.
TotalAction(L, all) == -Beta * PtotOver(L, all, 1, Len(all))

\* C17: for n >= 2 the six plaquettes Si(link) adds are pairwise distinct
\* and are the plaquettes of the lattice, as Pav() goes through them, whose
\* loop contains the link; replacing the link by any matrix changes the
\* total action by the change of Si(link).
C17_LocalAction ==
  (call.op = "Si" /\ InLinks(call.link) /\ n >= 2) =>
    \A link \in {[c \in 0..4 |-> call.link[c + 1]]} :
      \A terms \in {SiTerms(link)}, all \in {PavTerms} :
        /\ Cardinality({Plaquette(terms[t]) : t \in 1..6}) = 6
        /\ {Plaquette(terms[t]) : t \in 1..6}
             = {Plaquette(all[p]) : p \in
                  {p \in DOMAIN all :
                     call.link \in PIndexes(all[p].site, all[p].mu, all[p].nu)}}
        /\ \A before \in {TotalAction(links, all)} :
             \A X \in Elems :
               \A L \in {[links EXCEPT ![FlatLink(link)] = X]} :
                 TotalAction(L, all) - before = SiIn(L, link) - Si(link)

C17_Witness ==
  /\ call.op = "Si"
  /\ InLinks(call.link)
  /\ n = 3
  /\ call.link[1] = 0
  /\ \E X \in Elems :
       SiIn([links EXCEPT ![FlatLink([c \in 0..4 |-> call.link[c + 1]])] = X],
            [c \in 0..4 |-> call.link[c + 1]])
         # Si([c \in 0..4 |-> call.link[c + 1]])

\* C18: two distinct links of one parity class of update(), their draws
\* fixed: the two orders of their update_link calls make the same decisions
\* and leave the same gauge field.
C18_SamePhaseCommute ==
  call.op = "pair" =>
    /\ call.same
    /\ call.ab.kept = call.ba.kept

\* C19: the pool holds 100 entries, entry 2k+1 the adjoint and the inverse of
\* entry 2k; every index rand() % size is in [0, 100), and as many values of
\* rand() give the index of an entry as give the index of its adjoint.
C19_PoolPairs ==
  /\ Len(randSU3s) = 100
  /\ \A k \in 0..49 :
       /\ randSU3s[2 * k + 2] = Adjoint(randSU3s[2 * k + 1])
       /\ Times(randSU3s[2 * k + 1], randSU3s[2 * k + 2]) = IdentityElem
       /\ Times(randSU3s[2 * k + 2], randSU3s[2 * k + 1]) = IdentityElem
       /\ \A rand_max \in RAND_MAX_values :
            DrawCount(2 * k, rand_max) = DrawCount(2 * k + 1, rand_max)
  /\ \A rnd \in 0..RandMax : rnd % Len(randSU3s) \in 0..99

\* A direct update_link has multiplied a link by a pool matrix that is not
\* its own adjoint.
C19_Witness ==
  /\ randSU3s[1] # randSU3s[2]
  /\ \E q \in LinkIds : links[q] = Times(links0[q], randSU3s[1])
                         /\ links[q] # links0[q]

\* The next statement of thread t reads the coordinates through its
\* reference to `link`.
ReadsArgument(t) == tpc[t] \in {"L172", "L173", "L174", "L176", "L179"}

\* C20: no datum other than the links is written by the loop or a thread
\* while another thread reads it: the loop of update() is never about to
\* store the next coordinates into the array a thread still reads.
C20_ArgumentPrivate ==
  \A t \in ThreadIds :
    ReadsArgument(t) =>
      ~(upc = "launch" /\ pos < NumLinks /\ RoomForThread /\ Slot(pos) = Slot(t))

====
